---- MODULE Spec2Model ----
(***************************************************************************)
(* A model of package input (src/input_windows.go): synthetic mouse and    *)
(* keyboard input, cursor movement and clipboard text on top of the        *)
(* Windows API.  The operating system is modelled as the state the calls   *)
(* act on: the cursor position, the set of keys and buttons that are       *)
(* logically held, and the clipboard.  The failures the package looks at   *)
(* (SendInput's accepted count, a failed Get/SetCursorPos, a clipboard     *)
(* that cannot be opened) are nondeterministic choices; the calls whose    *)
(* result it ignores (GlobalAlloc, SetClipboardData) are taken to succeed. *)
(*                                                                         *)
(* A Go string is a sequence of bytes (0..255); a rune, a UTF-16 unit, a   *)
(* virtual key code and a scan code are natural numbers.                   *)
(***************************************************************************)
EXTENDS Integers, Sequences, FiniteSets, TLC

\* ------------------------------------------------------------------ bounds

\* Longest string handed to Type / TypeWithDelay, in bytes.
MaxLen == 3
\* Longest x and y of the line-break forms x + br + y, in bytes.
MaxPart == 1
\* Screen coordinates range over 0..MaxCoord.
MaxCoord == 1
\* Longest string handed to SetClipboardText, in bytes.
MaxClip == 2

\* ------------------------------------------------------- winapi constants

VK_BACK == 8
VK_RETURN == 13
VK_NUMPAD0 == 96
VK_LMENU == 164
KEYEVENTF_KEYUP == 2
KEYEVENTF_SCANCODE == 8
MOUSEEVENTF_LEFTDOWN == 2
MOUSEEVENTF_LEFTUP == 4
MOUSEEVENTF_RIGHTDOWN == 8
MOUSEEVENTF_RIGHTUP == 16
MOUSEEVENTF_MIDDLEDOWN == 32
MOUSEEVENTF_MIDDLEUP == 64
\* utf8.RuneError, what ranging over a string yields for an invalid byte.
RuneError == 65533

ErrBlocked == "w32.SendInput returned 0, meaning input was blocked"
ErrGetCursorFailed == "w32.GetCursorPos failed"
ErrSetCursorFailed == "w32.SetCursorPos failed"
\* The nil error, and the result of a call that has not returned yet.
nil == "nil"
pending == "pending"

\* ------------------------------------------------------------ Go strings

\* All sequences over alphabet of length at most n.
Strings(alphabet, n) == UNION {[1..k -> alphabet] : k \in 0..n}

\* Whether old occurs in s at index i.
HasPrefixAt(s, i, old) ==
    /\ i + Len(old) - 1 <= Len(s)
    /\ SubSeq(s, i, i + Len(old) - 1) = old

RECURSIVE ReplaceFrom(_, _, _, _)
ReplaceFrom(s, i, old, new) ==
    IF i > Len(s) THEN <<>>
    ELSE IF HasPrefixAt(s, i, old)
         THEN new \o ReplaceFrom(s, i + Len(old), old, new)
         ELSE <<s[i]>> \o ReplaceFrom(s, i + 1, old, new)

\* strings.Replace(s, old, new, -1) for a non-empty old: every
\* non-overlapping occurrence, left to right.
Replace(s, old, new) == ReplaceFrom(s, 1, old, new)

CR == <<13>>
LF == <<10>>
CRLF == <<13, 10>>

\* Mutant: the two replacements in the other order.
NormalizeLFFirst(s) == Replace(Replace(s, LF, CR), CRLF, CR)

\* Unify line breaks to '\r'.
Normalize(s) == Replace(Replace(s, CRLF, CR), LF, CR)

IsCont(b) == b >= 128 /\ b <= 191

\* The rune that starts at byte i of s and its width in bytes, as
\* `for _, r := range s` decodes it.  Strings are drawn from bytes below
\* 0xE0, so only the one- and two-byte forms can be well formed; any other
\* byte decodes to RuneError with width 1.
DecodeRune(s, i) ==
    LET b0 == s[i] IN
    IF b0 < 128 THEN [r |-> b0, w |-> 1]
    ELSE IF b0 >= 194 /\ b0 <= 223 /\ i + 1 <= Len(s) /\ IsCont(s[i + 1])
         THEN [r |-> (b0 % 32) * 64 + (s[i + 1] % 64), w |-> 2]
         ELSE [r |-> RuneError, w |-> 1]

RECURSIVE RunesFrom(_, _)
RunesFrom(s, i) ==
    IF i > Len(s) THEN <<>>
    ELSE LET d == DecodeRune(s, i) IN <<d.r>> \o RunesFrom(s, i + d.w)

\* The runes of s in order.
Runes(s) == RunesFrom(s, 1)

\* utf8.AppendRune for a rune below 0x10000.
EncodeRune(r) ==
    IF r < 128 THEN <<r>>
    ELSE IF r < 2048 THEN <<192 + (r \div 64), 128 + (r % 64)>>
    ELSE <<224 + (r \div 4096), 128 + ((r \div 64) % 64), 128 + (r % 64)>>

RECURSIVE EncodeRunes(_)
\* string(runes)
EncodeRunes(rs) ==
    IF rs = <<>> THEN <<>> ELSE EncodeRune(Head(rs)) \o EncodeRunes(Tail(rs))

IsSurrogate(u) == u >= 55296 /\ u <= 57343

RECURSIVE Utf16Encode(_)
\* utf16.Encode
Utf16Encode(rs) ==
    IF rs = <<>> THEN <<>>
    ELSE LET r == Head(rs) IN
         (IF r >= 65536
          THEN <<55296 + ((r - 65536) \div 1024),
                 56320 + ((r - 65536) % 1024)>>
          ELSE IF IsSurrogate(r) THEN <<RuneError>> ELSE <<r>>)
         \o Utf16Encode(Tail(rs))

RECURSIVE Utf16Decode(_)
\* utf16.Decode
Utf16Decode(us) ==
    IF us = <<>> THEN <<>>
    ELSE LET u == Head(us) IN
         IF /\ u >= 55296 /\ u <= 56319 /\ Len(us) >= 2
            /\ us[2] >= 56320 /\ us[2] <= 57343
         THEN <<65536 + (u - 55296) * 1024 + (us[2] - 56320)>>
              \o Utf16Decode(Tail(Tail(us)))
         ELSE <<IF IsSurrogate(u) THEN RuneError ELSE u>>
              \o Utf16Decode(Tail(us))

RECURSIVE UpToNul(_)
\* The units of a buffer before its first 0.
UpToNul(us) ==
    IF us = <<>> \/ Head(us) = 0 THEN <<>>
    ELSE <<Head(us)>> \o UpToNul(Tail(us))

\* Whether syscall.StringToUTF16(s) panics: s holds a NUL byte.
HasNul(s) == \E i \in 1..Len(s) : s[i] = 0

\* syscall.StringToUTF16(s) for an s without NUL: its UTF-16 units and a
\* terminating 0.
StringToUTF16(s) == Append(Utf16Encode(Runes(s)), 0)

\* syscall.UTF16ToString(us)
UTF16ToString(us) == EncodeRunes(Utf16Decode(UpToNul(us)))

RECURSIVE SprintReversed(_)
\* Mutant: the digits least significant first.
SprintReversed(n) ==
    IF n < 10 THEN <<n>> ELSE <<n % 10>> \o SprintReversed(n \div 10)

RECURSIVE Sprint(_)
\* fmt.Sprint(int(r)) as digit values, most significant first.
Sprint(n) == IF n < 10 THEN <<n>> ELSE Append(Sprint(n \div 10), n % 10)

\* --------------------------------------------------------- input events

\* w32.KeyboardInput(w32.KEYBDINPUT{Vk, Scan, Flags}).
KeyboardInput(vk, scan, flags) ==
    [kind |-> "key", vk |-> vk, scan |-> scan, flags |-> flags]

\* w32.MouseInput(w32.MOUSEINPUT{Flags}).
MouseInput(flags) == [kind |-> "mouse", vk |-> 0, scan |-> 0, flags |-> flags]

\* Whether the one-bit flag f is set in flags.
HasFlag(flags, f) == (flags \div f) % 2 = 1

MouseUpFlags == {MOUSEEVENTF_LEFTUP, MOUSEEVENTF_RIGHTUP, MOUSEEVENTF_MIDDLEUP}

\* Whether the system reads e as a release.
IsUp(e) ==
    IF e.kind = "mouse" THEN e.flags \in MouseUpFlags
    ELSE HasFlag(e.flags, KEYEVENTF_KEYUP)

\* The key or button e acts on: a mouse button (named by its down flag), a
\* key given by scan code, or a key given by virtual key code.
KeyOf(e) ==
    IF e.kind = "mouse"
    THEN <<"mouse", IF IsUp(e) THEN e.flags \div 2 ELSE e.flags>>
    ELSE IF HasFlag(e.flags, KEYEVENTF_SCANCODE)
         THEN <<"scan", e.scan>>
         ELSE <<"vk", e.vk>>

RECURSIVE ApplyEvents(_, _)
\* The held keys and buttons after the system has taken the events of batch
\* in order, starting from h.
ApplyEvents(h, batch) ==
    IF batch = <<>> THEN h
    ELSE LET e == Head(batch) IN
         ApplyEvents(IF IsUp(e) THEN h \ {KeyOf(e)} ELSE h \cup {KeyOf(e)},
                     Tail(batch))

\* The scan codes of VK_NUMPAD0 .. VK_NUMPAD9 on a standard keyboard.
NumpadScan == <<82, 79, 80, 81, 75, 76, 77, 71, 72, 73>>

\* w32.MapVirtualKey(vk, MAPVK_VK_TO_VSC) for the keys TypeWithDelay maps;
\* 0 where there is no translation.
toScanCode(vk) ==
    IF vk = VK_LMENU THEN 56
    ELSE IF vk >= VK_NUMPAD0 /\ vk <= VK_NUMPAD0 + 9
         THEN NumpadScan[vk - VK_NUMPAD0 + 1]
         ELSE 0

\* The pair of scan-code events of a key: its press and its release.
upDown(vk) ==
    [down |-> KeyboardInput(0, toScanCode(vk), KEYEVENTF_SCANCODE),
     up   |-> KeyboardInput(0, toScanCode(vk),
                            KEYEVENTF_SCANCODE + KEYEVENTF_KEYUP)]

alt == upDown(VK_LMENU)

\* nums[d] for the digit d, 0..9.
nums(d) == upDown(VK_NUMPAD0 + d)

\* keys as TypeWithDelay first builds it.
InitialKeys == <<alt.down, nums(0).down, nums(0).up>>

\* Mutant: keys is not cut back.
KeepAll(ks) == ks

\* keys = keys[:3]
KeepPrefix(ks) == SubSeq(ks, 1, 3)

RECURSIVE DigitKeys(_)
\* The press and release of the numpad key of each digit, in order.
DigitKeys(digits) ==
    IF digits = <<>> THEN <<>>
    ELSE <<nums(Head(digits)).down, nums(Head(digits)).up>>
         \o DigitKeys(Tail(digits))

\* Mutant: Alt is not released.
CharKeysAltHeld(ks, r) == KeepPrefix(ks) \o DigitKeys(Sprint(r))

\* keys after the else branch of the loop body has rebuilt it for rune r.
CharKeys(ks, r) == KeepPrefix(ks) \o DigitKeys(Sprint(r)) \o <<alt.up>>

\* Mutant: a printable ASCII character is pressed as the key of its code.
DirectKeyPrintable(r) ==
    IF r = 13 THEN VK_RETURN
    ELSE IF r = 8 THEN VK_BACK
    ELSE IF r >= 32 /\ r <= 126 THEN r ELSE 0

\* The virtual key TypeWithDelay presses for r through PressKey, or 0 when r
\* is typed through the numpad.
DirectKey(r) ==
    IF r = 13 THEN VK_RETURN ELSE IF r = 8 THEN VK_BACK ELSE 0

\* The two events PressKey submits.
PressKeyBatch(key) ==
    <<KeyboardInput(key, 0, 0), KeyboardInput(key, 0, KEYEVENTF_KEYUP)>>

\* Mutant: the count is not looked at.
ErrNever(k) == nil

\* Mutant: a single accepted event counts as blocked too.
ErrIfFew(k) == IF k <= 1 THEN ErrBlocked ELSE nil

\* if n == 0 { return ErrBlocked }; return nil
ErrIfNone(k) == IF k = 0 THEN ErrBlocked ELSE nil

\* The counts SendInput is taken to return for batch: none of the events
\* (blocked), all of them, and three partial counts, the first event alone,
\* the first two, and all but the last.
AcceptCounts(batch) ==
    {0, 1, 2, Len(batch) - 1, Len(batch)} \cap 0..Len(batch)

\* Mutant: the result of SetCursorPos is not looked at.
SetIgnored(ok) == nil

\* if !w32.SetCursorPos(x, y) { return ErrSetCursorFailed }
ErrIfNotSet(ok) == IF ok THEN nil ELSE ErrSetCursorFailed

\* if !ok { return ErrGetCursorFailed }
ErrIfNotGot(ok) == IF ok THEN nil ELSE ErrGetCursorFailed

\* Mutant: dx is added to both coordinates.
MoveTargetDxTwice(x, y, dx, dy) == <<x + dx, y + dx>>

\* x+dx, y+dy
MoveTarget(x, y, dx, dy) == <<x + dx, y + dy>>

\* ------------------------------------------------------------------ state

VARIABLES
    cursor,     \* the cursor position <<x, y>>
    held,       \* the keys and buttons the system holds down
    clipboard,  \* the clipboard
    pc,         \* "idle", or where the running call stands
    op,         \* the running or last call and its arguments
    text,       \* TypeWithDelay: s after the line breaks are unified
    idx,        \* TypeWithDelay: the byte index of the next rune of text
    keys,       \* TypeWithDelay: the slice keys
    sent,       \* the batches the call has handed to SendInput, in order
    accepted,   \* what the last SendInput of the call returned
    calls,      \* the winapi calls of the call and whether each succeeded
    ret,        \* the error the call returned
    unbalanced, \* a bare Down was injected, or a batch was not taken in full
    parts,      \* the strings <<x, y>> the line-break forms are built from
    runs,       \* the batches of each line-break form typed to the end
    got,        \* the string the last ClipboardText returned
    lastSet,    \* the text of the last SetClipboardText that opened the clipboard
    movers,     \* two concurrent MoveMouseBy calls
    race        \* where the cursor was before them, and whether they overlapped

osVars == <<cursor, held, clipboard>>
typeVars == <<text, idx, keys>>
callVars == <<pc, op, sent, accepted, calls, ret>>
clipVars == <<got, lastSet>>
raceVars == <<movers, race>>
histVars == <<parts, runs, got, lastSet, movers, race>>
vars == <<cursor, held, clipboard, pc, op, text, idx, keys, sent, accepted,
          calls, ret, unbalanced, parts, runs, got, lastSet, movers, race>>

Call(name, x, y, key) == [name |-> name, x |-> x, y |-> y, key |-> key]
Entry(fn, ok) == [fn |-> fn, ok |-> ok]

\* The screen: MaxCoord + 1 columns of two rows.
Coords == 0..MaxCoord
Rows == {0, 1}
Points == Coords \X Rows

\* w32.SendInput(batch...) returning k, after the calls before and with the
\* batches sentBefore already handed over: the first k events take effect.
SendInput(before, sentBefore, batch, k, bareDown) ==
    /\ held' = ApplyEvents(held, SubSeq(batch, 1, k))
    /\ sent' = Append(sentBefore, batch)
    /\ accepted' = k
    /\ calls' = Append(before, Entry("SendInput", k # 0))
    /\ unbalanced' = (unbalanced \/ bareDown \/ k # Len(batch))

\* A call that returns without having reached SendInput.
NoInput(before) ==
    /\ sent' = <<>>
    /\ accepted' = 0
    /\ calls' = before
    /\ UNCHANGED <<held, unbalanced>>

\* A call other than TypeWithDelay starts: nothing is being typed.
NotTyping ==
    /\ pc = "idle"
    /\ pc' = "idle"
    /\ text' = <<>>
    /\ idx' = 1
    /\ keys' = <<>>

\* No call has been made, no key or button is held, the clipboard holds no
\* text.
InitCalls ==
    /\ held = {}
    /\ clipboard = <<>>
    /\ pc = "idle"
    /\ op = Call("none", 0, 0, 0)
    /\ text = <<>>
    /\ idx = 1
    /\ keys = <<>>
    /\ sent = <<>>
    /\ accepted = 0
    /\ calls = <<>>
    /\ ret = nil
    /\ unbalanced = FALSE
    /\ runs = <<>>
    /\ got = <<>>
    /\ lastSet = [some |-> FALSE, text |-> <<>>]

NoMovers == [i \in 1..2 |-> [pc |-> "done", at |-> <<0, 0>>, d |-> <<0, 0>>,
                             ret |-> nil]]

Init ==
    /\ InitCalls
    /\ cursor = <<0, 0>>
    /\ parts = <<<<>>, <<>>>>
    /\ movers = NoMovers
    /\ race = [start |-> <<0, 0>>, overlapped |-> FALSE]

\* ------------------------------------------------------- mouse and cursor

\* click, called as name; before are the calls name has made already.
click(name, x, y, before, down, up) ==
    LET batch == <<MouseInput(down), MouseInput(up)>> IN
    \E k \in AcceptCounts(batch) :
       /\ SendInput(before, <<>>, batch, k, FALSE)
       /\ ret' = ErrIfNone(k)
       /\ op' = Call(name, x, y, 0)

clickAt(name, x, y, down, up) ==
    /\ NotTyping
    /\ \E ok \in BOOLEAN :
         /\ cursor' = IF ok THEN <<x, y>> ELSE cursor
         /\ IF ErrIfNotSet(ok) # nil
            THEN /\ ret' = ErrIfNotSet(ok)
                 /\ op' = Call(name, x, y, 0)
                 /\ NoInput(<<Entry("SetCursorPos", ok)>>)
            ELSE click(name, x, y, <<Entry("SetCursorPos", ok)>>, down, up)
    /\ UNCHANGED <<clipboard, histVars>>

LeftClickAt(x, y) ==
    clickAt("LeftClickAt", x, y, MOUSEEVENTF_LEFTDOWN, MOUSEEVENTF_LEFTUP)

RightClickAt(x, y) ==
    clickAt("RightClickAt", x, y, MOUSEEVENTF_RIGHTDOWN, MOUSEEVENTF_RIGHTUP)

MiddleClickAt(x, y) ==
    clickAt("MiddleClickAt", x, y, MOUSEEVENTF_MIDDLEDOWN, MOUSEEVENTF_MIDDLEUP)

clickHere(name, down, up) ==
    /\ NotTyping
    /\ click(name, 0, 0, <<>>, down, up)
    /\ UNCHANGED <<cursor, clipboard, histVars>>

LeftClick == clickHere("LeftClick", MOUSEEVENTF_LEFTDOWN, MOUSEEVENTF_LEFTUP)

RightClick ==
    clickHere("RightClick", MOUSEEVENTF_RIGHTDOWN, MOUSEEVENTF_RIGHTUP)

MiddleClick ==
    clickHere("MiddleClick", MOUSEEVENTF_MIDDLEDOWN, MOUSEEVENTF_MIDDLEUP)

buttonDown(name, x, y, down) ==
    /\ NotTyping
    /\ op' = Call(name, x, y, 0)
    /\ \E ok \in BOOLEAN :
         /\ cursor' = IF ok THEN <<x, y>> ELSE cursor
         /\ IF ErrIfNotSet(ok) # nil
            THEN /\ ret' = ErrIfNotSet(ok)
                 /\ NoInput(<<Entry("SetCursorPos", ok)>>)
            ELSE \E k \in AcceptCounts(<<MouseInput(down)>>) :
                    /\ SendInput(<<Entry("SetCursorPos", ok)>>, <<>>,
                                 <<MouseInput(down)>>, k, TRUE)
                    /\ ret' = ErrIfNone(k)
    /\ UNCHANGED <<clipboard, histVars>>

buttonUp(name, up) ==
    /\ NotTyping
    /\ op' = Call(name, 0, 0, 0)
    /\ \E k \in AcceptCounts(<<MouseInput(up)>>) :
         /\ SendInput(<<>>, <<>>, <<MouseInput(up)>>, k, FALSE)
         /\ ret' = ErrIfNone(k)
    /\ UNCHANGED <<cursor, clipboard, histVars>>

LeftDown(x, y) == buttonDown("LeftDown", x, y, MOUSEEVENTF_LEFTDOWN)
RightDown(x, y) == buttonDown("RightDown", x, y, MOUSEEVENTF_RIGHTDOWN)
MiddleDown(x, y) == buttonDown("MiddleDown", x, y, MOUSEEVENTF_MIDDLEDOWN)
LeftUp == buttonUp("LeftUp", MOUSEEVENTF_LEFTUP)
RightUp == buttonUp("RightUp", MOUSEEVENTF_RIGHTUP)
MiddleUp == buttonUp("MiddleUp", MOUSEEVENTF_MIDDLEUP)

MoveMouseTo(x, y) ==
    /\ NotTyping
    /\ op' = Call("MoveMouseTo", x, y, 0)
    /\ \E ok \in BOOLEAN :
         /\ cursor' = IF ok THEN <<x, y>> ELSE cursor
         /\ ret' = ErrIfNotSet(ok)
         /\ NoInput(<<Entry("SetCursorPos", ok)>>)
    /\ UNCHANGED <<clipboard, histVars>>

\* MoveMouseBy as one step.  A failed GetCursorPos yields 0, 0.
MoveMouseBy(dx, dy) ==
    /\ NotTyping
    /\ op' = Call("MoveMouseBy", dx, dy, 0)
    /\ \E okGet \in BOOLEAN :
         LET at == IF okGet THEN cursor ELSE <<0, 0>>
             to == MoveTarget(at[1], at[2], dx, dy)
         IN IF ErrIfNotGot(okGet) # nil
            THEN /\ ret' = ErrIfNotGot(okGet)
                 /\ cursor' = cursor
                 /\ NoInput(<<Entry("GetCursorPos", okGet)>>)
            ELSE /\ to \in Points
                 /\ \E ok \in BOOLEAN :
                      /\ cursor' = IF ok THEN to ELSE cursor
                      /\ ret' = ErrIfNotSet(ok)
                      /\ NoInput(<<Entry("GetCursorPos", okGet),
                                   Entry("SetCursorPos", ok)>>)
    /\ UNCHANGED <<clipboard, histVars>>

\* The four events of a double click.
DoubleClickBatch ==
    <<MouseInput(MOUSEEVENTF_LEFTDOWN), MouseInput(MOUSEEVENTF_LEFTUP),
      MouseInput(MOUSEEVENTF_LEFTDOWN), MouseInput(MOUSEEVENTF_LEFTUP)>>

LeftDoubleClickAt(x, y) ==
    /\ NotTyping
    /\ op' = Call("LeftDoubleClickAt", x, y, 0)
    /\ \E ok \in BOOLEAN :
         /\ cursor' = IF ok THEN <<x, y>> ELSE cursor
         /\ IF ErrIfNotSet(ok) # nil
            THEN /\ ret' = ErrIfNotSet(ok)
                 /\ NoInput(<<Entry("SetCursorPos", ok)>>)
            ELSE \E k \in AcceptCounts(DoubleClickBatch) :
                    /\ SendInput(<<Entry("SetCursorPos", ok)>>, <<>>,
                                 DoubleClickBatch, k, FALSE)
                    /\ ret' = ErrIfNone(k)
    /\ UNCHANGED <<clipboard, histVars>>

LeftDoubleClick ==
    /\ NotTyping
    /\ op' = Call("LeftDoubleClick", 0, 0, 0)
    /\ \E k \in AcceptCounts(DoubleClickBatch) :
         /\ SendInput(<<>>, <<>>, DoubleClickBatch, k, FALSE)
         /\ ret' = ErrIfNone(k)
    /\ UNCHANGED <<cursor, clipboard, histVars>>

\* --------------------------------------------------------------- keyboard

KeyDown(key) ==
    /\ NotTyping
    /\ op' = Call("KeyDown", 0, 0, key)
    /\ \E k \in AcceptCounts(<<KeyboardInput(key, 0, 0)>>) :
         /\ SendInput(<<>>, <<>>, <<KeyboardInput(key, 0, 0)>>, k, TRUE)
         /\ ret' = ErrIfNone(k)
    /\ UNCHANGED <<cursor, clipboard, histVars>>

KeyUp(key) ==
    /\ NotTyping
    /\ op' = Call("KeyUp", 0, 0, key)
    /\ \E k \in AcceptCounts(<<KeyboardInput(key, 0, KEYEVENTF_KEYUP)>>) :
         /\ SendInput(<<>>, <<>>, <<KeyboardInput(key, 0, KEYEVENTF_KEYUP)>>,
                      k, FALSE)
         /\ ret' = ErrIfNone(k)
    /\ UNCHANGED <<cursor, clipboard, histVars>>

PressKey(key) ==
    /\ NotTyping
    /\ op' = Call("PressKey", 0, 0, key)
    /\ \E k \in AcceptCounts(PressKeyBatch(key)) :
         /\ SendInput(<<>>, <<>>, PressKeyBatch(key), k, FALSE)
         /\ ret' = ErrIfNone(k)
    /\ UNCHANGED <<cursor, clipboard, histVars>>

\* --------------------------------------------------------- TypeWithDelay

\* TypeWithDelay up to its loop: keys is built and the line breaks of s
\* are unified.  time.Sleep(delay) changes nothing the model holds.
TypeWithDelay(s, delay) ==
    /\ pc = "idle"
    /\ pc' = "typing"
    /\ op' = Call("TypeWithDelay", 0, 0, 0)
    /\ text' = Normalize(s)
    /\ idx' = 1
    /\ keys' = InitialKeys
    /\ sent' = <<>>
    /\ accepted' = 0
    /\ calls' = <<>>
    /\ ret' = pending
    /\ UNCHANGED <<cursor, held, clipboard, unbalanced>>

Type(s) == TypeWithDelay(s, 1)

\* One iteration of the loop over the runes of s; PressKey returns an error
\* as ErrIfNone does.
TypeChar ==
    /\ pc = "typing"
    /\ idx <= Len(text)
    /\ LET d == DecodeRune(text, idx)
           direct == DirectKey(d.r)
           batch == IF direct # 0 THEN PressKeyBatch(direct)
                    ELSE CharKeys(keys, d.r)
       IN /\ keys' = IF direct # 0 THEN keys ELSE batch
          /\ \E k \in AcceptCounts(batch) :
               /\ SendInput(calls, sent, batch, k, FALSE)
               /\ IF ErrIfNone(k) # nil
                  THEN /\ ret' = ErrIfNone(k)
                       /\ pc' = "idle"
                       /\ idx' = idx
                  ELSE /\ ret' = ret
                       /\ pc' = pc
                       /\ idx' = idx + d.w
    /\ UNCHANGED <<cursor, clipboard, op, text>>

\* The loop is over: return nil.
TypeReturn ==
    /\ pc = "typing"
    /\ idx > Len(text)
    /\ ret' = nil
    /\ pc' = "idle"
    /\ UNCHANGED <<osVars, typeVars, op, sent, accepted, calls, unbalanced>>

\* ----------------------------------------------------------- the callers

\* The bytes strings to type are drawn from: backspace, "\n", "\r", "e"
\* (101), and 0xCF 0xB3, which together encode U+03F3 (1011) and apart are
\* invalid.
TypeBytes == {8, 10, 13, 101, 207, 179}
\* The strings typed between the other operations.
FewStrings == {<<>>, <<13>>, <<101>>, <<101, 10>>}
Delays == {2}
\* The keys handed to KeyDown, KeyUp and PressKey: 'A' and VK_RETURN.
Keys == {65, VK_RETURN}
Deltas == {-1, 0, 1}

\* One string, drawn at the start, is typed again and again.
InitType ==
    /\ InitCalls
    /\ cursor = <<0, 0>>
    /\ parts \in Strings(TypeBytes, MaxLen) \X {<<>>}
    /\ movers = NoMovers
    /\ race = [start |-> <<0, 0>>, overlapped |-> FALSE]

NextType ==
    \/ \E delay \in Delays :
         TypeWithDelay(parts[1], delay) /\ UNCHANGED histVars
    \/ Type(parts[1]) /\ UNCHANGED histVars
    \/ TypeChar /\ UNCHANGED histVars
    \/ TypeReturn /\ UNCHANGED histVars

SpecType == InitType /\ [][NextType]_vars

\* One caller calls the operations on mouse, cursor and keyboard in any
\* order, each call returning before the next.
Next ==
    \/ \E p \in Points : LeftClickAt(p[1], p[2])
    \/ \E p \in Points : RightClickAt(p[1], p[2])
    \/ \E p \in Points : MiddleClickAt(p[1], p[2])
    \/ LeftClick
    \/ RightClick
    \/ MiddleClick
    \/ \E p \in Points : LeftDown(p[1], p[2])
    \/ \E p \in Points : RightDown(p[1], p[2])
    \/ \E p \in Points : MiddleDown(p[1], p[2])
    \/ LeftUp
    \/ RightUp
    \/ MiddleUp
    \/ \E p \in Points : MoveMouseTo(p[1], p[2])
    \/ \E dx \in Deltas, dy \in Deltas : MoveMouseBy(dx, dy)
    \/ \E p \in Points : LeftDoubleClickAt(p[1], p[2])
    \/ LeftDoubleClick
    \/ \E key \in Keys : KeyDown(key)
    \/ \E key \in Keys : KeyUp(key)
    \/ \E key \in Keys : PressKey(key)
    \/ \E s \in FewStrings, delay \in Delays :
         TypeWithDelay(s, delay) /\ UNCHANGED histVars
    \/ \E s \in FewStrings : Type(s) /\ UNCHANGED histVars
    \/ TypeChar /\ UNCHANGED histVars
    \/ TypeReturn /\ UNCHANGED histVars

Spec == Init /\ [][Next]_vars

\* ----------------------------------------------------- line-break forms

\* The bytes the strings x and y are drawn from: "\n", "\r" and "e".
BreakBytes == {10, 13, 101}

\* The strings typed one after the other: x + "\r\n" + y, x + "\n" + y,
\* x + "\r" + y, then x alone and y alone.
Form(k) ==
    CASE k = 1 -> parts[1] \o CRLF \o parts[2]
      [] k = 2 -> parts[1] \o LF \o parts[2]
      [] k = 3 -> parts[1] \o CR \o parts[2]
      [] k = 4 -> parts[1]
      [] OTHER -> parts[2]

InitForms ==
    /\ InitCalls
    /\ cursor = <<0, 0>>
    /\ parts \in Strings(BreakBytes, MaxPart) \X Strings(BreakBytes, MaxPart)
    /\ movers = NoMovers
    /\ race = [start |-> <<0, 0>>, overlapped |-> FALSE]

\* Each form is typed until a call types it to the end.
NextForms ==
    \/ /\ Len(runs) < 5
       /\ TypeWithDelay(Form(Len(runs) + 1), 1)
       /\ UNCHANGED histVars
    \/ TypeChar /\ UNCHANGED histVars
    \/ /\ TypeReturn
       /\ runs' = Append(runs, sent)
       /\ UNCHANGED <<parts, clipVars, raceVars>>

SpecForms == InitForms /\ [][NextForms]_vars

\* -------------------------------------------------------------- clipboard

\* The clipboard is the buffer of its CF_UNICODETEXT data, 0-terminated
\* UTF-16, or <<>> when it holds no text (GetClipboardData returns NULL).

\* The bytes clipboard texts are drawn from: NUL, "a", and 0xC3 0xA9, which
\* together encode U+00E9 and apart are invalid.
ClipBytes == {0, 97, 195, 169}

ClipboardText ==
    /\ NotTyping
    /\ op' = Call("ClipboardText", 0, 0, 0)
    /\ ret' = nil
    /\ \E ok \in BOOLEAN :
         /\ NoInput(<<Entry("OpenClipboard", ok)>>)
         /\ got' = IF ok /\ clipboard # <<>> THEN UTF16ToString(clipboard)
                   ELSE <<>>
    /\ UNCHANGED <<cursor, clipboard, lastSet, parts, runs, raceVars>>

\* SetClipboardText; StringToUTF16 panics after EmptyClipboard, and the
\* clipboard is then left without text.
SetClipboardText(s) ==
    /\ NotTyping
    /\ op' = Call("SetClipboardText", 0, 0, 0)
    /\ \E ok \in BOOLEAN :
         /\ NoInput(<<Entry("OpenClipboard", ok)>>)
         /\ IF ok
            THEN /\ clipboard' = IF HasNul(s) THEN <<>> ELSE StringToUTF16(s)
                 /\ ret' = IF HasNul(s) THEN "panic" ELSE nil
                 /\ lastSet' = [some |-> TRUE, text |-> s]
            ELSE /\ clipboard' = clipboard
                 /\ ret' = nil
                 /\ lastSet' = lastSet
    /\ UNCHANGED <<cursor, got, parts, runs, raceVars>>

NextClip ==
    \/ ClipboardText
    \/ \E s \in Strings(ClipBytes, MaxClip) : SetClipboardText(s)

SpecClip == Init /\ [][NextClip]_vars

\* ---------------------------------------------------- concurrent movers

\* Two callers each call MoveMouseBy once, with every failure possible; the
\* system serves one winapi call at a time.
InitRace ==
    /\ InitCalls
    /\ cursor \in Points
    /\ parts = <<<<>>, <<>>>>
    /\ movers \in [1..2 -> [pc : {"get"}, at : {<<0, 0>>},
                            d : Deltas \X Deltas, ret : {pending}]]
    /\ race = [start |-> cursor, overlapped |-> FALSE]

\* x, y, ok := w32.GetCursorPos() and the check of ok, by caller i.
MoveGet(i) ==
    /\ movers[i].pc = "get"
    /\ \E ok \in BOOLEAN :
         movers' = [movers EXCEPT
            ![i].at = IF ok THEN cursor ELSE <<0, 0>>,
            ![i].pc = IF ErrIfNotGot(ok) # nil THEN "done" ELSE "set",
            ![i].ret = IF ErrIfNotGot(ok) # nil THEN ErrIfNotGot(ok) ELSE @]
    /\ race' = [race EXCEPT
          !.overlapped = @ \/ \E j \in 1..2 : j # i /\ movers[j].pc = "set"]
    /\ UNCHANGED <<osVars, typeVars, callVars, unbalanced, parts, runs,
                   clipVars>>

\* w32.SetCursorPos(x+dx, y+dy) and the return, by caller i.
MoveSet(i) ==
    /\ movers[i].pc = "set"
    /\ \E ok \in BOOLEAN :
         /\ cursor' = IF ok
                      THEN MoveTarget(movers[i].at[1], movers[i].at[2],
                                      movers[i].d[1], movers[i].d[2])
                      ELSE cursor
         /\ movers' = [movers EXCEPT ![i].pc = "done",
                                     ![i].ret = ErrIfNotSet(ok)]
    /\ UNCHANGED <<held, clipboard, typeVars, callVars, unbalanced, parts,
                   runs, clipVars, race>>

NextRace ==
    \/ \E i \in 1..2 : MoveGet(i)
    \/ \E i \in 1..2 : MoveSet(i)

SpecRace == InitRace /\ [][NextRace]_vars

\* ================================================================ claims

\* The characters of the string being typed, after the line breaks are
\* unified, and how many of them the loop has passed.
Typed == Runes(text)
Typing == op.name = "TypeWithDelay"
Passed == Len(Runes(SubSeq(text, 1, idx - 1)))

RECURSIVE NumDigits(_)
NumDigits(n) == IF n < 10 THEN 1 ELSE 1 + NumDigits(n \div 10)

\* The j-th decimal digit of n, the most significant being the first.
DecimalDigit(n, j) == (n \div (10 ^ (NumDigits(n) - j))) % 10

\* For each decimal digit of n, most significant first, the numpad key's
\* press and then its release.
DigitPresses(n) ==
    [j \in 1..(2 * NumDigits(n)) |->
        IF j % 2 = 1 THEN nums(DecimalDigit(n, (j + 1) \div 2)).down
        ELSE nums(DecimalDigit(n, j \div 2)).up]

\* Alt down, the digits of r, Alt up.
AltDigits(r) == <<alt.down>> \o DigitPresses(r) \o <<alt.up>>

\* Alt down, numpad 0, the digits of r, Alt up.
AltZeroDigits(r) ==
    <<alt.down, nums(0).down, nums(0).up>> \o DigitPresses(r) \o <<alt.up>>

\* The press and the release of the key vk, by virtual key code.
KeyPress(vk) ==
    <<[kind |-> "key", vk |-> vk, scan |-> 0, flags |-> 0],
      [kind |-> "key", vk |-> vk, scan |-> 0, flags |-> KEYEVENTF_KEYUP]>>

\* The batch of one character: Enter and backspace by their keys, any
\* other character by its code.
BatchOf(r) ==
    IF r = 13 THEN KeyPress(VK_RETURN)
    ELSE IF r = 8 THEN KeyPress(VK_BACK)
    ELSE AltZeroDigits(r)

\* A blocked batch ends the call at its character.
C1_Blocked ==
    Typing =>
      /\ (sent # <<>> /\ accepted = 0) => (ret = ErrBlocked /\ pc = "idle")
      /\ ret = ErrBlocked =>
           /\ pc = "idle"
           /\ accepted = 0
           /\ idx <= Len(text)
           /\ Len(sent) = Passed + 1
           /\ \A i \in 1..Len(sent) : sent[i] = BatchOf(Typed[i])
\* A call that has returned ErrBlocked submits nothing more: sent changes
\* only when a new call starts.
C1_Halts ==
    (Typing /\ ret = ErrBlocked) => (sent' = sent \/ ret' = pending)
\* C1: when SendInput accepts none of the events of a character's batch,
\* TypeWithDelay returns ErrBlocked at that character: the batches of the
\* characters before it have been submitted, its own is the last one, and
\* from then on the call submits nothing.
C1_BlockedHalts == [](C1_Blocked) /\ [][C1_Halts]_vars
\* The second of three characters is blocked.
C1_Witness ==
    /\ Typing
    /\ ret = ErrBlocked
    /\ Len(sent) = 2
    /\ Len(Typed) = 3

\* C2 as stated: the batch of a character typed by its code is Alt down,
\* the digits of the code, Alt up, and nothing else.
C2_AltDigitsOnly ==
    Typing => \A i \in 1..Len(sent) :
                Typed[i] \notin {13, 8} => sent[i] = AltDigits(Typed[i])
\* C2 amended: the batch of a character typed by its code is Alt down, the
\* press and release of numpad 0, then the digits of the code, most
\* significant first, each pressed and released, then Alt up, and nothing
\* else.
C2_AltZeroDigits ==
    Typing => \A i \in 1..Len(sent) :
                Typed[i] \notin {13, 8} => sent[i] = AltZeroDigits(Typed[i])
\* U+03F3, code 1011, has been typed after "e", code 101.
C2_Witness ==
    /\ Typing
    /\ ret = nil
    /\ Typed = <<101, 1011>>
    /\ Len(sent) = 2

\* C5: TypeWithDelay submits one batch per character it has passed, in the
\* order of the string, each the batch of its character alone whatever was
\* typed before, and a call that returns nil has submitted one batch for
\* every character.
C5_OnePerChar ==
    Typing =>
      /\ Len(sent) = Passed + (IF ret = ErrBlocked THEN 1 ELSE 0)
      /\ Len(sent) <= Len(Typed)
      /\ \A i \in 1..Len(sent) : sent[i] = BatchOf(Typed[i])
      /\ (ret = nil) => Len(sent) = Len(Typed)
\* A character of three digits has been typed after one of five.
C5_Witness ==
    /\ Typing
    /\ ret = nil
    /\ Typed = <<RuneError, 101>>
    /\ Len(sent) = 2

\* Whether batch presses a key directly: no Alt, no numpad entry.
IsDirect(batch) ==
    /\ Len(batch) = 2
    /\ \A j \in 1..Len(batch) : ~HasFlag(batch[j].flags, KEYEVENTF_SCANCODE)
Printable(r) == r >= 32 /\ r <= 126
\* C6 as stated: a printable ASCII character is typed by its own key, with
\* no Alt and no numpad entry.
C6_PrintableDirect ==
    Typing => \A i \in 1..Len(sent) : Printable(Typed[i]) => IsDirect(sent[i])
\* C6 amended: Enter is typed by the Enter key and backspace by the
\* Backspace key, each as the key's press and release; every other
\* character, printable ASCII included, is typed by Alt and numpad entry.
C6_OnlyEnterAndBackspaceDirect ==
    Typing => \A i \in 1..Len(sent) :
      /\ Typed[i] = 13 => sent[i] = KeyPress(VK_RETURN)
      /\ Typed[i] = 8 => sent[i] = KeyPress(VK_BACK)
      /\ Typed[i] \notin {13, 8} =>
           /\ ~IsDirect(sent[i])
           /\ sent[i][1] = alt.down
           /\ sent[i][Len(sent[i])] = alt.up
           /\ \A j \in 1..Len(sent[i]) :
                HasFlag(sent[i][j].flags, KEYEVENTF_SCANCODE)
\* Backspace, "e" and Enter have been typed.
C6_Witness ==
    /\ Typing
    /\ ret = nil
    /\ Typed = <<8, 101, 13>>
    /\ Len(sent) = 3

\* Whether every press in batch is followed, later in batch, by the release
\* of the same key or button.
Balanced(batch) ==
    \A j \in 1..Len(batch) :
       ~IsUp(batch[j]) =>
          \E m \in (j + 1)..Len(batch) :
             IsUp(batch[m]) /\ KeyOf(batch[m]) = KeyOf(batch[j])
BareDowns == {"KeyDown", "LeftDown", "RightDown", "MiddleDown"}
\* C4: every batch of an operation other than the bare KeyDown and
\* Left/Right/MiddleDown releases, later in the batch, each key or button it
\* presses; and as long as no bare Down was called and every batch was
\* taken in full, no key or button is held.
C4_BalancedBatches ==
    /\ op.name \notin BareDowns => \A i \in 1..Len(sent) : Balanced(sent[i])
    /\ ~unbalanced => held = {}
\* Two characters have been typed, every batch so far taken in full.
C4_Witness ==
    /\ Typing
    /\ ret = nil
    /\ Len(sent) = 2
    /\ ~unbalanced
    /\ held = {}

CursorFirst == {"MoveMouseBy", "LeftClickAt", "RightClickAt", "MiddleClickAt",
                "LeftDown", "RightDown", "MiddleDown", "LeftDoubleClickAt"}
CursorError(fn) ==
    IF fn = "GetCursorPos" THEN ErrGetCursorFailed ELSE ErrSetCursorFailed
\* C7: in MoveMouseBy, the ClickAt operations, the Down operations and
\* LeftDoubleClickAt a failed GetCursorPos or SetCursorPos is the
\* operation's last winapi call and the operation returns its error, so no
\* cursor is set after a failed read and no event injected after a failed
\* set; when the cursor was set and SendInput then accepts nothing, the
\* operation returns ErrBlocked and the cursor is at the new position.
C7_CursorFailureEnds ==
    op.name \in CursorFirst =>
      /\ \A i \in 1..Len(calls) :
           (calls[i].fn \in {"GetCursorPos", "SetCursorPos"} /\ ~calls[i].ok)
           => /\ i = Len(calls)
              /\ ret = CursorError(calls[i].fn)
              /\ sent = <<>>
      /\ ret \in {ErrGetCursorFailed, ErrSetCursorFailed} =>
           ~calls[Len(calls)].ok
      /\ ret = ErrBlocked =>
           /\ calls = <<Entry("SetCursorPos", TRUE), Entry("SendInput", FALSE)>>
           /\ cursor = <<op.x, op.y>>
\* LeftClickAt(1, 1) could not set the cursor, which stays at 0, 0.
C7_Witness ==
    /\ op = Call("LeftClickAt", 1, 1, 0)
    /\ ret = ErrSetCursorFailed
    /\ calls = <<Entry("SetCursorPos", FALSE)>>
    /\ cursor = <<0, 0>>

\* C10: an operation that has handed a batch to SendInput returns
\* ErrBlocked exactly when the count it got back is 0; with any other
\* count, smaller than the batch or not, it returns nil, and TypeWithDelay
\* goes on with the next character.
C10_BlockedIffZero ==
    sent # <<>> =>
      IF pc = "idle"
      THEN /\ ret \in {nil, ErrBlocked}
           /\ ret = ErrBlocked <=> accepted = 0
      ELSE /\ accepted # 0
           /\ ret = pending
\* LeftDoubleClick had one of its four events accepted and returned nil.
C10_Witness ==
    /\ op.name = "LeftDoubleClick"
    /\ Len(sent[1]) = 4
    /\ accepted = 1
    /\ ret = nil

\* The batches of Enter pressed once.
Enter == <<KeyPress(VK_RETURN)>>
\* C3 as stated: whatever x and y are, the three forms x + "\r\n" + y,
\* x + "\n" + y and x + "\r" + y are typed as the same batches, which are
\* those of x, one Enter, and those of y.
C3_AllBreaksAlike ==
    /\ Len(runs) >= 3 => (runs[1] = runs[2] /\ runs[2] = runs[3])
    /\ Len(runs) = 5 => runs[1] = runs[4] \o Enter \o runs[5]
\* Whether the break put between x and y stays apart from both: x does not
\* end in "\r" and y does not start with "\n".
BreakApart ==
    /\ parts[1] = <<>> \/ parts[1][Len(parts[1])] # 13
    /\ parts[2] = <<>> \/ parts[2][1] # 10
\* C3 amended: when x does not end in "\r" and y does not start with "\n",
\* the three forms are typed as the same batches, which are those of x,
\* one Enter, and those of y.
C3_ApartBreaksAlike ==
    BreakApart =>
      /\ Len(runs) >= 2 => runs[1] = runs[2]
      /\ Len(runs) >= 3 => runs[2] = runs[3]
      /\ Len(runs) = 5 => runs[1] = runs[4] \o Enter \o runs[5]
\* All forms of x = "\n", y = "\r" have been typed.
C3_Witness ==
    /\ parts = <<LF, CR>>
    /\ Len(runs) = 5
    /\ Len(runs[1]) = 3

\* C8 as stated: a ClipboardText that opens the clipboard returns the text
\* of the last SetClipboardText that opened it, and ClipboardText returns
\* the empty string when it cannot open the clipboard or the clipboard
\* holds no text.
C8_ReadsLastSet ==
    op.name = "ClipboardText" =>
      /\ (calls[1].ok /\ lastSet.some) => got = lastSet.text
      /\ (~calls[1].ok \/ clipboard = <<>>) => got = <<>>

Plus(p, d) == <<p[1] + d[1], p[2] + d[2]>>
BothMoved == \A i \in 1..2 : movers[i].pc = "done" /\ movers[i].ret = nil
\* C9: after two MoveMouseBy calls d1 and d2 that both return nil, started
\* with the cursor at p, the cursor is at p+d1, p+d2 or p+d1+d2, and at
\* p+d1+d2 when neither call read the cursor between the other's read and
\* write.
C9_LostMove ==
    BothMoved =>
      /\ cursor \in {Plus(race.start, movers[1].d),
                     Plus(race.start, movers[2].d),
                     Plus(Plus(race.start, movers[1].d), movers[2].d)}
      /\ ~race.overlapped =>
           cursor = Plus(Plus(race.start, movers[1].d), movers[2].d)
\* The second move is lost: the cursor ends at p+d1.
C9_Witness ==
    /\ BothMoved
    /\ race.overlapped
    /\ movers[2].d # <<0, 0>>
    /\ cursor = Plus(race.start, movers[1].d)

====
